---- MODULE Spec2Model ----
(***************************************************************************)
(* Model of the magic ring buffer of src/mrb.c: a byte ring buffer whose   *)
(* backing file of `size` bytes is mapped twice, back to back, so that the *)
(* virtual range [0, 2*size) aliases the file bytes [0, size).             *)
(***************************************************************************)
EXTENDS Integers, Sequences, FiniteSets

VARIABLES
    size,     \* struct mrb.size: the capacity
    writer,   \* struct mrb.writer
    reader,   \* struct mrb.reader
    buff,     \* the backing file, [0..size-1 -> Byte]; b->buff[v] is buff[v % size]
    last,     \* the call the client has made and not yet taken the result of:
              \* its name, arguments, result and memory access
    running,  \* FALSE once the process was killed by a memory fault
    fifo,     \* history: the bytes the buffer accepted and has not handed out yet
    sys       \* what mrb_create / mrb_destroy hold of the operating system:
              \* the handle, the two halves of the mapping, the temporary file

vars == <<size, writer, reader, buff, last, running, fifo, sys>>

\* struct mrb { unsigned char *buff; size_t size; int writer; int reader; }
TypeOK ==
    /\ size \in Nat
    /\ writer \in Int
    /\ reader \in Int
    /\ DOMAIN buff = 0..(size - 1)
    /\ running \in BOOLEAN
    /\ fifo \in Seq(Nat)
    /\ sys.handle \in {"none", "live", "freed"}

----------------------------------------------------------------------------
(* Bounds of the model. *)

MaxPages == 3     \* capacities are PageSize * (1..MaxPages)
MaxLen == 3       \* longest source / rendered text, largest length argument
MaxNeedle == 2    \* longest needle handed to mrb_search
MaxChain == 2     \* longest source / largest length in back-to-back calls

(* Program constants. *)

PageSize == 2     \* getpagesize(), scaled down from 4096
SizeBits == 64    \* width of size_t, the type the cursor arithmetic is done in

NUL == 0          \* the terminator vsnprintf stores

\* Two byte values tell any two buffer contents apart position by position.
Byte == {NUL, NUL + 1}
Char == Byte \ {NUL}

SeqsUpTo(S, n) == UNION {[1..k -> S] : k \in 0..n}

Lens == 0..MaxLen

----------------------------------------------------------------------------
(* Arithmetic helpers. *)

\* #define MIN(a, b) ((a) < (b)) ? (a) : (b)
MIN(a, b) == IF a < b THEN a ELSE b

RECURSIVE PowMod(_, _, _)
\* b^e mod m, computed without leaving the range of small integers
PowMod(b, e, m) ==
    IF e = 0 THEN 1 % m
    ELSE LET h == PowMod(b, e \div 2, m)
             sq == (h * h) % m
         IN IF e % 2 = 1 THEN (sq * (b % m)) % m ELSE sq

\* (size_t)a - (size_t)n reduced modulo m, for 0 <= a, n < 2^SizeBits:
\* the subtraction wraps modulo 2^SizeBits before the % is taken.
USubMod(a, n, m) ==
    IF a >= n THEN (a - n) % m
    ELSE (PowMod(2, SizeBits, m) + ((a - n) % m)) % m

----------------------------------------------------------------------------
(* Creation and destruction. *)

mrb_validatesize(sz) == IF sz % PageSize # 0 THEN -1 ELSE 0

Capacities == {sz \in 1..(PageSize * MaxPages) : mrb_validatesize(sz) = 0}

NoCall == [op |-> "none", src |-> <<>>, len |-> 0, aux |-> 0, lim |-> 0,
           ret |-> 0, out |-> <<>>, accOff |-> 0, accLen |-> 0]

Call(op, src, len, aux, lim, ret, out, accOff, accLen) ==
    [op |-> op, src |-> src, len |-> len, aux |-> aux, lim |-> lim,
     ret |-> ret, out |-> out, accOff |-> accOff, accLen |-> accLen]

\* The results of the library and system calls mrb_create makes; TRUE is
\* success.  nullfile is what fileno(NULL) does after a failed tmpfile():
\* it kills the process, or hands back -1 and the process dies later in
\* fclose(NULL).  unwind is the result of munmap(b->buff, b->size * 2) on
\* the paths that give up after the reservation; it is not looked at.
Outcomes ==
    [malloc : BOOLEAN, tmpfile : BOOLEAN, nullfile : {"fault", "badfd"},
     ftruncate : BOOLEAN, reserve : BOOLEAN, first : BOOLEAN, second : BOOLEAN,
     unwind : BOOLEAN]

AllOk ==
    [malloc |-> TRUE, tmpfile |-> TRUE, nullfile |-> "fault", ftruncate |-> TRUE,
     reserve |-> TRUE, first |-> TRUE, second |-> TRUE, unwind |-> TRUE]

\* No handle, nothing mapped, no temporary file.
NoSys ==
    [handle |-> "none", lo |-> "none", hi |-> "none", file |-> "none",
     sized |-> FALSE, err |-> "none", failed |-> {}, trace |-> <<>>]

InitResult(ret, fault, lo, hi, file, sized, err, failed, trace) ==
    [ret |-> ret, fault |-> fault, lo |-> lo, hi |-> hi, file |-> file,
     sized |-> sized, err |-> err, failed |-> failed, trace |-> trace]

\* mrb_init: what it returns and what it leaves behind.  lo and hi are the
\* two halves of the range [buff, buff + 2*size); failed holds the calls that
\* were made and failed, the unwinding munmap aside; trace lists the calls
\* in the order they were made.  A half is "anon" while it holds the
\* PROT_NONE reservation and "file" once it maps the temporary file.
mrb_init(sz, o) ==
    IF mrb_validatesize(sz) # 0
    THEN InitResult(-1, FALSE, "none", "none", "none", FALSE, "InvalidSize", {}, <<>>)
    ELSE
    LET gotfile == o.tmpfile
        open == <<"tmpfile", "fileno">>
    IN  IF ~gotfile /\ o.nullfile = "fault"
        THEN InitResult(0, TRUE, "none", "none", "none", FALSE, "none",
                        {"tmpfile"}, open)
        ELSE
        LET \* the result of ftruncate is not looked at
            sized == gotfile /\ o.ftruncate
            failed1 == (IF gotfile THEN {} ELSE {"tmpfile"})
                           \cup (IF sized THEN {} ELSE {"ftruncate"})
            t2 == open \o <<"ftruncate", "mmap_reserve">>
            \* close(fd); fclose(file); return -1;  fclose(NULL) is a fault
            Unwound(lo, hi, failed, trace) ==
                InitResult(-1, ~gotfile, lo, hi,
                           IF gotfile THEN "closed" ELSE "none", sized,
                           "MappingFailure", failed, trace \o <<"close", "fclose">>)
            \* what munmap(b->buff, b->size * 2) leaves of a half
            Left(half) == IF o.unwind THEN "none" ELSE half
        IN  \* mmap of length 0 fails with EINVAL
            IF ~(sz > 0 /\ o.reserve)
            THEN Unwound("none", "none", failed1 \cup {"mmap_reserve"}, t2)
            \* a shared file mapping of descriptor -1 fails with EBADF
            ELSE IF ~(gotfile /\ o.first)
            THEN Unwound(Left("anon"), Left("anon"), failed1 \cup {"mmap_first"},
                         t2 \o <<"mmap_first", "munmap_all">>)
            ELSE IF ~o.second
            THEN Unwound(Left("file"), Left("anon"), failed1 \cup {"mmap_second"},
                         t2 \o <<"mmap_first", "mmap_second", "munmap_all">>)
            ELSE InitResult(0, FALSE, "file", "file", "closed", sized, "none", failed1,
                            t2 \o <<"mmap_first", "mmap_second", "fclose">>)

\* what mrb_create holds after mrb_init returned 0
CreatedSys(r) ==
    [handle |-> "live", lo |-> r.lo, hi |-> r.hi, file |-> r.file,
     sized |-> r.sized, err |-> "none", failed |-> r.failed,
     trace |-> <<"malloc">> \o r.trace]

\* The state after a successful mrb_create(size).  A fresh temporary file
\* extended by ftruncate reads as zeros.
Init ==
    /\ size \in Capacities
    /\ writer = 0
    /\ reader = 0
    /\ buff = [i \in 0..(size - 1) |-> 0]
    /\ last = NoCall
    /\ running = TRUE
    /\ fifo = <<>>
    /\ sys = CreatedSys(mrb_init(size, AllOk))

mrb_create(sz, o) ==
    IF ~o.malloc
    THEN /\ sys' = [NoSys EXCEPT !.err = "NoMemory", !.failed = {"malloc"},
                                 !.trace = <<"malloc">>]
         /\ last' = Call("create", <<>>, sz, 0, 0, -1, <<>>, 0, 0)
         /\ UNCHANGED <<size, writer, reader, buff, running, fifo>>
    ELSE
    LET r == mrb_init(sz, o)
    IN  IF r.fault
        THEN /\ running' = FALSE
             /\ sys' = [CreatedSys(r) EXCEPT !.err = r.err]
             /\ last' = Call("SIGSEGV", <<>>, sz, 0, 0, 0, <<>>, 0, 0)
             /\ UNCHANGED <<size, writer, reader, buff, fifo>>
        ELSE IF r.ret # 0
        THEN \* free(b); return NULL;
             /\ sys' = [CreatedSys(r) EXCEPT !.handle = "freed", !.err = r.err,
                                             !.trace = @ \o <<"free">>]
             /\ last' = Call("create", <<>>, sz, 0, 0, -1, <<>>, 0, 0)
             /\ UNCHANGED <<size, writer, reader, buff, running, fifo>>
        ELSE /\ sys' = CreatedSys(r)
             /\ size' = sz
             /\ writer' = 0
             /\ reader' = 0
             /\ buff' = [i \in 0..(sz - 1) |-> 0]
             /\ fifo' = <<>>
             /\ last' = Call("create", <<>>, sz, 0, 0, 0, <<>>, 0, 0)
             /\ UNCHANGED running

\* The results of the three munmap calls of mrb_deinit; TRUE is success.
Unmaps == [second : BOOLEAN, first : BOOLEAN, all : BOOLEAN]

\* the place of the first failing munmap in the order of mrb_deinit, 0 if none
FirstFailure(o) ==
    IF ~o.second THEN 1 ELSE IF ~o.first THEN 2 ELSE IF ~o.all THEN 3 ELSE 0

DeinitResult(ret, lo, hi, trace) == [ret |-> ret, lo |-> lo, hi |-> hi, trace |-> trace]

\* mrb_deinit that goes on to the next munmap after a failed one
mrb_deinit_through(o) ==
    DeinitResult(IF FirstFailure(o) = 0 THEN 0 ELSE -1,
                 IF o.first \/ o.all THEN "none" ELSE sys.lo,
                 IF o.second \/ o.all THEN "none" ELSE sys.hi,
                 <<"munmap_second", "munmap_first", "munmap_all">>)

mrb_deinit(o) ==
    IF ~o.second
    THEN DeinitResult(-1, sys.lo, sys.hi, <<"munmap_second">>)
    ELSE IF ~o.first
    THEN DeinitResult(-1, sys.lo, "none", <<"munmap_second", "munmap_first">>)
    ELSE IF ~o.all
    THEN DeinitResult(-1, "none", "none",
                      <<"munmap_second", "munmap_first", "munmap_all">>)
    ELSE DeinitResult(0, "none", "none",
                      <<"munmap_second", "munmap_first", "munmap_all">>)

\* lim records the place of the first failing munmap
mrb_destroy(o) ==
    LET r == mrb_deinit(o)
    IN  /\ sys' = [sys EXCEPT !.lo = r.lo, !.hi = r.hi,
                              !.handle = IF r.ret # 0 THEN "live" ELSE "freed",
                              !.err = IF r.ret # 0 THEN "DestroyFailure" ELSE "none",
                              !.failed = {},
                              !.trace = IF r.ret # 0 THEN r.trace
                                        ELSE r.trace \o <<"free">>]
        /\ last' = Call("destroy", <<>>, 0, 0, FirstFailure(o), r.ret, <<>>, 0, 0)
        \* free(b): the fields of the buffer are gone
        /\ IF r.ret # 0
           THEN UNCHANGED <<size, writer, reader, buff, fifo>>
           ELSE /\ size' = 0
                /\ writer' = 0
                /\ reader' = 0
                /\ buff' = [i \in 0..(0 - 1) |-> 0]
                /\ fifo' = <<>>
        /\ UNCHANGED running

----------------------------------------------------------------------------
(* Cursor queries. *)

mrb_size == size

mrb_available ==
    IF writer < reader THEN reader - writer - 1
    ELSE size - (writer - reader) - 1

mrb_used ==
    IF writer >= reader THEN writer - reader
    ELSE size - (reader - writer)

mrb_isempty == reader = writer

mrb_isfull == size = mrb_used + 1

----------------------------------------------------------------------------
(* The double mapping. *)

\* Variant: the second mapping is missing, bytes past `size` never reach the file.
Store_unmirrored(mem, off, bytes) ==
    [i \in 0..(size - 1) |->
        IF \E k \in 1..Len(bytes) : off + k - 1 = i
        THEN bytes[CHOOSE k \in 1..Len(bytes) : off + k - 1 = i]
        ELSE mem[i]]

\* memcpy(b->buff + off, bytes, Len(bytes)): virtual address v is file byte v % size
Store(mem, off, bytes) ==
    [i \in 0..(size - 1) |->
        IF \E k \in 1..Len(bytes) : (off + k - 1) % size = i
        THEN bytes[CHOOSE k \in 1..Len(bytes) :
                     /\ (off + k - 1) % size = i
                     /\ \A j \in (k + 1)..Len(bytes) : (off + j - 1) % size # i]
        ELSE mem[i]]

\* the n bytes at b->buff + off
Load(off, n) == [k \in 1..n |-> buff[(off + k - 1) % size]]

Take(s, n) == SubSeq(s, 1, n)

Max0(n) == IF n > 0 THEN n ELSE 0

----------------------------------------------------------------------------
(* Transfer operations.  Each definition is one function of src/mrb.c.     *)

\* Variant: the byte kept free to tell full from empty is given away.
mrb_put_nospare(source) ==
    LET amount == MIN(Len(source), mrb_available + 1) IN
    /\ buff' = Store(buff, writer, Take(source, amount))
    /\ writer' = (writer + amount) % size
    /\ last' = Call("put", source, Len(source), 0, 0, amount, <<>>, writer, amount)
    /\ UNCHANGED <<size, reader, running>>

mrb_put(source) ==
    LET amount == MIN(Len(source), mrb_available) IN
    /\ buff' = Store(buff, writer, Take(source, amount))
    /\ writer' = (writer + amount) % size
    /\ last' = Call("put", source, Len(source), 0, 0, amount, <<>>, writer, amount)
    /\ UNCHANGED <<size, reader, running>>

\* Variant: an exact fit is refused.
mrb_putall_strict(source) ==
    IF Len(source) >= mrb_available
    THEN /\ last' = Call("putall", source, Len(source), 0, 0, -1, <<>>, writer, 0)
         /\ UNCHANGED <<size, reader, writer, buff, running>>
    ELSE /\ buff' = Store(buff, writer, source)
         /\ writer' = (writer + Len(source)) % size
         /\ last' = Call("putall", source, Len(source), 0, 0, 0, <<>>,
                         writer, Len(source))
         /\ UNCHANGED <<size, reader, running>>

mrb_putall(source) ==
    IF Len(source) > mrb_available
    THEN /\ last' = Call("putall", source, Len(source), 0, 0, -1, <<>>, writer, 0)
         /\ UNCHANGED <<size, reader, writer, buff, running>>
    ELSE /\ buff' = Store(buff, writer, source)
         /\ writer' = (writer + Len(source)) % size
         /\ last' = Call("putall", source, Len(source), 0, 0, 0, <<>>,
                         writer, Len(source))
         /\ UNCHANGED <<size, reader, running>>

\* Variant: the reader is advanced without the modulo.
mrb_get_nowrap(len) ==
    LET amount == MIN(len, mrb_used) IN
    /\ reader' = reader + amount
    /\ last' = Call("get", <<>>, len, 0, 0, amount, Load(reader, amount),
                    reader, amount)
    /\ UNCHANGED <<size, writer, buff, running>>

\* Variant: the bytes are copied after the reader was advanced.
mrb_get_late(len) ==
    LET amount == MIN(len, mrb_used) IN
    /\ reader' = (reader + amount) % size
    /\ last' = Call("get", <<>>, len, 0, 0, amount,
                    Load((reader + amount) % size, amount),
                    (reader + amount) % size, amount)
    /\ UNCHANGED <<size, writer, buff, running>>

mrb_get(len) ==
    LET amount == MIN(len, mrb_used) IN
    /\ reader' = (reader + amount) % size
    /\ last' = Call("get", <<>>, len, 0, 0, amount, Load(reader, amount),
                    reader, amount)
    /\ UNCHANGED <<size, writer, buff, running>>

\* Variant: the peek consumes what it copied.
mrb_softget_consuming(len, offset) ==
    LET amount == MIN(len + offset, mrb_used) IN
    /\ reader' = (reader + amount - offset) % size
    /\ last' = Call("softget", <<>>, len, offset, 0, amount - offset,
                    Load(reader + offset, amount - offset),
                    reader + offset, amount - offset)
    /\ UNCHANGED <<size, writer, buff, running>>

\* The caller keeps the input constraint offset <= used().
mrb_softget(len, offset) ==
    LET amount == MIN(len + offset, mrb_used) IN
    /\ last' = Call("softget", <<>>, len, offset, 0, amount - offset,
                    Load(reader + offset, amount - offset),
                    reader + offset, amount - offset)
    /\ UNCHANGED <<size, reader, writer, buff, running>>

\* Variant: the amount is not compared with the used length.
mrb_skip_unchecked(len) ==
    /\ reader' = (reader + len) % size
    /\ last' = Call("skip", <<>>, len, 0, 0, 0, <<>>, reader, 0)
    /\ UNCHANGED <<size, writer, buff, running>>

mrb_skip(len) ==
    IF mrb_used < len
    THEN /\ last' = Call("skip", <<>>, len, 0, 0, -1, <<>>, reader, 0)
         /\ UNCHANGED <<size, reader, writer, buff, running>>
    ELSE /\ reader' = (reader + len) % size
         /\ last' = Call("skip", <<>>, len, 0, 0, 0, <<>>, reader, 0)
         /\ UNCHANGED <<size, writer, buff, running>>

\* Variant: the subtraction and the remainder are done on signed integers.
mrb_rollback_signed(len) ==
    IF mrb_used > len
    THEN /\ last' = Call("rollback", <<>>, len, 0, 0, -1, <<>>, reader, 0)
         /\ UNCHANGED <<size, reader, writer, buff, running>>
    ELSE /\ reader' = IF reader >= len THEN (reader - len) % size
                                       ELSE -((len - reader) % size)
         /\ last' = Call("rollback", <<>>, len, 0, 0, 0, <<>>, reader, 0)
         /\ UNCHANGED <<size, writer, buff, running>>

mrb_rollback(len) ==
    IF mrb_used > len
    THEN /\ last' = Call("rollback", <<>>, len, 0, 0, -1, <<>>, reader, 0)
         /\ UNCHANGED <<size, reader, writer, buff, running>>
    ELSE /\ reader' = USubMod(reader, len, size)
         /\ last' = Call("rollback", <<>>, len, 0, 0, 0, <<>>, reader, 0)
         /\ UNCHANGED <<size, writer, buff, running>>

\* Variant: the threshold test is >= instead of >.
mrb_getmin_strict(minsize, maxsize) ==
    LET used == mrb_used IN
    IF minsize >= used
    THEN /\ last' = Call("getmin", <<>>, maxsize, minsize, 0, -1, <<>>, reader, 0)
         /\ UNCHANGED <<size, reader, writer, buff, running>>
    ELSE LET amount == MIN(maxsize, used) IN
         /\ reader' = (reader + amount) % size
         /\ last' = Call("getmin", <<>>, maxsize, minsize, 0, amount,
                         Load(reader, amount), reader, amount)
         /\ UNCHANGED <<size, writer, buff, running>>

mrb_getmin(minsize, maxsize) ==
    LET used == mrb_used IN
    IF minsize > used
    THEN /\ last' = Call("getmin", <<>>, maxsize, minsize, 0, -1, <<>>, reader, 0)
         /\ UNCHANGED <<size, reader, writer, buff, running>>
    ELSE LET amount == MIN(maxsize, used) IN
         /\ reader' = (reader + amount) % size
         /\ last' = Call("getmin", <<>>, maxsize, minsize, 0, amount,
                         Load(reader, amount), reader, amount)
         /\ UNCHANGED <<size, writer, buff, running>>

\* Variant: the writer is advanced by the amount asked for, not by the result.
mrb_readin_asked(len, res, data) ==
    LET amount == MIN(len, mrb_available) IN
    /\ res \in -1..amount
    /\ Len(data) = Max0(res)
    /\ buff' = Store(buff, writer, data)
    /\ writer' = IF res > 0 THEN (writer + amount) % size ELSE writer
    /\ last' = Call("readin", data, len, 0, 0, res, <<>>, writer, amount)
    /\ UNCHANGED <<size, reader, running>>

\* read(2) is asked for `amount` bytes and answers res in -1..amount, having
\* stored the res bytes `data` at b->buff + b->writer.
mrb_readin(len, res, data) ==
    LET amount == MIN(len, mrb_available) IN
    /\ res \in -1..amount
    /\ Len(data) = Max0(res)
    /\ buff' = Store(buff, writer, data)
    /\ writer' = IF res > 0 THEN (writer + res) % size ELSE writer
    /\ last' = Call("readin", data, len, 0, 0, res, <<>>, writer, amount)
    /\ UNCHANGED <<size, reader, running>>

\* write(2) is handed `amount` bytes and answers res in -1..amount, having
\* taken the first res of them.
mrb_writeout(len, res) ==
    LET amount == MIN(len, mrb_used) IN
    /\ res \in -1..amount
    /\ reader' = IF res > 0 THEN (reader + res) % size ELSE reader
    /\ last' = Call("writeout", <<>>, len, 0, 0, res, Load(reader, Max0(res)),
                    reader, amount)
    /\ UNCHANGED <<size, writer, buff, running>>

\* vsnprintf(dst, n, ...) for a rendering `text` of non-NUL characters: with
\* n > 0 it stores the first min(Len(text), n - 1) characters and a NUL, with
\* n = 0 it stores nothing; it answers Len(text) either way.
vsnprintf(n, text) ==
    IF n = 0 THEN <<>> ELSE Append(Take(text, MIN(Len(text), n - 1)), NUL)

\* mrb_print forwards its arguments to mrb_vprint; `failed` is vsnprintf
\* answering a negative value (an encoding error, a NULL format): `text` is
\* then what was rendered before the failure, and it is stored with its NUL
\* like a complete rendering.
mrb_vprint(text, failed) ==
    LET n == mrb_available
        stored == vsnprintf(n, text)
        written == IF failed THEN -1 ELSE Len(text)
    IN
    /\ buff' = Store(buff, writer, stored)
    /\ writer' = IF written > 0 THEN (writer + written) % size ELSE writer
    /\ last' = Call("print", text, n, 0, 0, written, stored, writer, Len(stored))
    /\ UNCHANGED <<size, reader, running>>

mrb_print(text, failed) == mrb_vprint(text, failed)

----------------------------------------------------------------------------
(* Search. *)

\* memmem(hay, Len(hay), needle, Len(needle)) for a non-empty needle: the
\* 0-based index of the first occurrence, -1 for NULL
memmem(hay, needle) ==
    LET hits == {i \in 0..(Len(hay) - Len(needle)) :
                    \A k \in 1..Len(needle) : hay[i + k] = needle[k]}
    IN IF hits = {} THEN -1 ELSE CHOOSE i \in hits : \A j \in hits : i <= j

\* the window length mrb_search hands to memmem
SearchLimit(limit) == IF limit <= 0 THEN mrb_used ELSE MIN(limit, mrb_used)

\* how many bytes of the window lie past the end of the double mapping
SearchBeyond(start, limit) ==
    Max0(reader + start + SearchLimit(limit) - 2 * size)

\* `beyond` are the bytes found past the end of the double mapping, when the
\* window reaches there and the read does not fault.
mrb_search(needle, start, limit, beyond) ==
    IF Len(needle) = 0
    THEN /\ last' = Call("search", needle, 0, start, limit, -1, <<>>, reader, 0)
         /\ UNCHANGED <<size, reader, writer, buff, running>>
    ELSE IF start >= mrb_used
    THEN /\ last' = Call("search", needle, Len(needle), start, limit, -1, <<>>,
                         reader, 0)
         /\ UNCHANGED <<size, reader, writer, buff, running>>
    ELSE LET lim == SearchLimit(limit)
             s == reader + start
             hay == [k \in 1..lim |->
                        IF s + k - 1 < 2 * size
                        THEN buff[(s + k - 1) % size]
                        ELSE beyond[s + k - 2 * size]]
             found == memmem(hay, needle)
         IN
         /\ Len(beyond) = SearchBeyond(start, limit)
         /\ last' = Call("search", needle, Len(needle), start, limit,
                         IF found = -1 THEN -1 ELSE start + found, <<>>, s, lim)
         /\ UNCHANGED <<size, reader, writer, buff, running>>

\* The read past the double mapping hits an unmapped page: SIGSEGV.
mrb_search_fault(needle, start, limit) ==
    /\ Len(needle) > 0
    /\ start < mrb_used
    /\ SearchBeyond(start, limit) > 0
    /\ running' = FALSE
    /\ last' = Call("SIGSEGV", needle, Len(needle), start, limit, 0, <<>>,
                    reader + start, SearchLimit(limit))
    /\ UNCHANGED <<size, reader, writer, buff>>

----------------------------------------------------------------------------
(* The calls a client can make on a created buffer.  The client makes a     *)
(* call when it holds no result, and takes the result with Return.         *)

Idle == running /\ last.op = "none"

\* the calls of this section leave the history and the mapping alone
Untracked == UNCHANGED <<fifo, sys>>

Sources == SeqsUpTo(Byte, MaxLen)
Texts == SeqsUpTo(Char, MaxLen)
Needles == SeqsUpTo(Byte, MaxNeedle)
RollLens == 0..(PageSize * MaxPages + 1)

Put == Idle /\ Untracked /\ \E source \in Sources : mrb_put(source)

PutAll == Idle /\ Untracked /\ \E source \in Sources : mrb_putall(source)

Get == Idle /\ Untracked /\ \E len \in Lens : mrb_get(len)

SoftGet ==
    Idle /\ Untracked /\ \E len \in Lens : \E offset \in 0..mrb_used : mrb_softget(len, offset)

Skip == Idle /\ Untracked /\ \E len \in Lens : mrb_skip(len)

Rollback == Idle /\ Untracked /\ \E len \in RollLens : mrb_rollback(len)

GetMin == Idle /\ Untracked /\ \E minsize \in Lens : \E maxsize \in Lens : mrb_getmin(minsize, maxsize)

ReadIn ==
    Idle /\ Untracked /\ \E len \in Lens : \E data \in Sources : \E res \in -1..MaxLen :
        mrb_readin(len, res, data)

WriteOut == Idle /\ Untracked /\ \E len \in Lens : \E res \in -1..MaxLen : mrb_writeout(len, res)

Printf == Idle /\ Untracked /\ \E text \in Texts : \E failed \in BOOLEAN : mrb_print(text, failed)

Search ==
    Idle /\ Untracked /\ \E needle \in Needles : \E start \in 0..mrb_used :
        \E limit \in -1..MaxLen : \E beyond \in SeqsUpTo(Byte, SearchBeyond(start, limit)) :
            mrb_search(needle, start, limit, beyond)

SearchFault ==
    Idle /\ Untracked /\ \E needle \in Needles : \E start \in 0..mrb_used :
        \E limit \in -1..MaxLen : mrb_search_fault(needle, start, limit)

Return ==
    /\ running
    /\ last.op # "none"
    /\ last' = NoCall
    /\ UNCHANGED <<size, reader, writer, buff, running, fifo, sys>>

Next ==
    \/ Put \/ PutAll \/ Get \/ SoftGet \/ Skip \/ Rollback \/ GetMin
    \/ ReadIn \/ WriteOut \/ Printf \/ Search \/ SearchFault \/ Return

Spec == Init /\ [][Next]_vars

----------------------------------------------------------------------------
(* Back-to-back calls: the client makes the next call while it still holds *)
(* the record of the previous one.                                         *)

ChainSources == SeqsUpTo(Byte, MaxChain)

ChainPut == running /\ Untracked /\ \E source \in ChainSources : mrb_put(source)

ChainGet == running /\ Untracked /\ \E len \in 0..MaxChain : mrb_get(len)

ChainNext == ChainPut \/ ChainGet

SpecChain == Init /\ [][ChainNext]_vars

\* Back-to-back calls that also drop and restore bytes.
ChainSkip == running /\ Untracked /\ \E len \in 0..MaxChain : mrb_skip(len)

ChainRollback == running /\ Untracked /\ \E len \in 0..MaxChain : mrb_rollback(len)

UndoNext == ChainPut \/ ChainGet \/ ChainSkip \/ ChainRollback

SpecUndo == Init /\ [][UndoNext]_vars

----------------------------------------------------------------------------
(* The calls that move bytes in at the writer and out at the reader, with  *)
(* the history of the bytes that went in and have not come out.            *)

Drop(s, n) == [k \in 1..Max0(Len(s) - n) |-> s[k + n]]

\* the bytes a call reported as taken into the buffer
Accepted(call) ==
    IF call.op = "put" THEN Take(call.src, call.ret)
    ELSE IF call.op = "putall" /\ call.ret = 0 THEN call.src
    ELSE IF call.op = "readin" THEN call.src
    ELSE <<>>

\* the number of bytes a call reported as taken out of the buffer
Removed(call) ==
    IF call.op \in {"get", "getmin", "writeout"} THEN Max0(call.ret)
    ELSE IF call.op = "skip" /\ call.ret = 0 THEN call.len
    ELSE 0

Track ==
    /\ fifo' = Drop(fifo \o Accepted(last'), Removed(last'))
    /\ UNCHANGED sys

FifoPut == Idle /\ (\E source \in Sources : mrb_put(source)) /\ Track

FifoPutAll == Idle /\ (\E source \in Sources : mrb_putall(source)) /\ Track

FifoReadIn ==
    /\ Idle
    /\ \E len \in Lens : \E data \in Sources : \E res \in -1..MaxLen :
           mrb_readin(len, res, data)
    /\ Track

FifoGet == Idle /\ (\E len \in Lens : mrb_get(len)) /\ Track

FifoGetMin ==
    /\ Idle
    /\ \E minsize \in Lens : \E maxsize \in Lens : mrb_getmin(minsize, maxsize)
    /\ Track

FifoSkip == Idle /\ (\E len \in Lens : mrb_skip(len)) /\ Track

FifoWriteOut ==
    /\ Idle
    /\ \E len \in Lens : \E res \in -1..MaxLen : mrb_writeout(len, res)
    /\ Track

FifoNext ==
    \/ FifoPut \/ FifoPutAll \/ FifoReadIn \/ FifoGet \/ FifoGetMin
    \/ FifoSkip \/ FifoWriteOut \/ Return

SpecFifo == Init /\ [][FifoNext]_vars

----------------------------------------------------------------------------
(* The life of a buffer: mrb_create, use, mrb_destroy. *)

InitLife ==
    /\ size = 0
    /\ writer = 0
    /\ reader = 0
    /\ buff = [i \in 0..(size - 1) |-> 0]
    /\ last = NoCall
    /\ running = TRUE
    /\ fifo = <<>>
    /\ sys = NoSys

Sizes == 0..(PageSize * MaxPages)

Create ==
    /\ Idle
    /\ sys.handle # "live"
    /\ \E sz \in Sizes : \E o \in Outcomes : mrb_create(sz, o)

Destroy ==
    /\ Idle
    /\ sys.handle = "live"
    /\ \E o \in Unmaps : mrb_destroy(o)

\* both halves map the file and the file has its `size` bytes
Usable == sys.handle = "live" /\ sys.lo = "file" /\ sys.hi = "file" /\ sys.sized

LifePut == Usable /\ Put

LifeGet == Usable /\ Get

\* memcpy into a mapping of a file that was never extended: SIGBUS
BusFault ==
    /\ Idle
    /\ sys.handle = "live" /\ sys.lo = "file" /\ ~sys.sized
    /\ \E source \in Sources :
           /\ MIN(Len(source), mrb_available) > 0
           /\ last' = Call("SIGBUS", source, Len(source), 0, 0, 0, <<>>, writer,
                           MIN(Len(source), mrb_available))
    /\ running' = FALSE
    /\ UNCHANGED <<size, reader, writer, buff, fifo, sys>>

LifeNext == Create \/ Destroy \/ LifePut \/ LifeGet \/ BusFault \/ Return

SpecLife == InitLife /\ [][LifeNext]_vars

----------------------------------------------------------------------------
(* Properties. *)

\* the k-th logical byte (k = 0 is the byte at the cursor) of memory mem
At(mem, cursor, k) == mem[(cursor + k) % size]

\* C1: after every operation the cursor queries agree: used + available is
\* capacity - 1, isEmpty holds exactly when used is 0, and isFull exactly when
\* available is 0, that is when used is capacity - 1.
C1_QueriesConsistent ==
    /\ mrb_used + mrb_available = mrb_size - 1
    /\ mrb_isempty <=> (mrb_used = 0)
    /\ mrb_isfull <=> (mrb_available = 0)
    /\ mrb_isfull <=> (mrb_used = mrb_size - 1)

\* a full buffer whose data wraps, right after a put that was cut short
C1_Witness ==
    /\ last.op = "put"
    /\ last.ret < last.len
    /\ writer < reader
    /\ mrb_isfull

\* C2: both cursors stay inside [0, capacity) in every reachable state.
C2_CursorsInRange ==
    /\ 0 <= reader /\ reader < size
    /\ 0 <= writer /\ writer < size

\* a rollback by more than the capacity succeeded
C2_Witness ==
    /\ last.op = "rollback"
    /\ last.ret = 0
    /\ last.len > size
    /\ last.len > last.accOff

\* C3: every memory access of a transfer or search operation is one range
\* [off, off+len) with len <= capacity and off+len <= 2*capacity.
C3_AccessInsideMapping ==
    /\ 0 <= last.accOff
    /\ last.accLen <= size
    /\ last.accOff + last.accLen <= 2 * size

\* C4 as stated: whenever a put stored all of its n bytes, a get of n bytes
\* made right after it returns those bytes.
C4_RoundTripAnyBuffer ==
    [][ ( /\ last.op = "put"
          /\ last.ret = last.len
          /\ last'.op = "get"
          /\ last'.len = last.len )
        => last'.out = last.src ]_vars

\* C4 amended: when the buffer was empty before a put that stored all of its
\* n bytes, a get of n bytes made right after it returns exactly those bytes.
C4_RoundTripEmptyBuffer ==
    [][ ( /\ last.op = "put"
          /\ last.ret = last.len
          /\ reader = last.accOff
          /\ last'.op = "get"
          /\ last'.len = last.len )
        => (last'.ret = last.len /\ last'.out = last.src) ]_vars

\* a get just emptied the buffer by reading two or more bytes, not all alike,
\* that straddle the wrap point
C4_Witness ==
    /\ last.op = "get"
    /\ last.ret = last.len
    /\ last.ret >= 2
    /\ last.accOff + last.ret > size
    /\ mrb_isempty
    /\ \E i, j \in 1..Len(last.out) : last.out[i] # last.out[j]

\* C5: put copies the first min(len, available) bytes of the source to the
\* logical positions starting at writer, returns that count, advances writer
\* by it modulo capacity, leaves reader and the unread bytes alone, and so
\* used grows by the returned count.
C5_Put ==
    [][ last'.op = "put" =>
        LET n == MIN(last'.len, mrb_available) IN
        /\ last'.ret = n
        /\ \A k \in 0..(n - 1) : At(buff', writer, k) = last'.src[k + 1]
        /\ writer' = (writer + n) % size
        /\ reader' = reader
        /\ \A k \in 0..(mrb_used - 1) : At(buff', reader, k) = At(buff, reader, k)
        /\ mrb_used' = mrb_used + n ]_vars

\* a put that was cut short and whose bytes straddle the wrap point
C5_Witness ==
    /\ last.op = "put"
    /\ 0 < last.ret /\ last.ret < last.len
    /\ last.accOff + last.ret > size

\* C6: putAll stores all len bytes and advances writer by len modulo capacity
\* when len <= available; otherwise it fails and changes neither cursor nor
\* any byte.  A full buffer refuses one more byte.
C6_PutAll ==
    [][ last'.op = "putall" =>
        /\ IF last'.len <= mrb_available
           THEN /\ last'.ret = 0
                /\ \A k \in 0..(last'.len - 1) :
                       At(buff', writer, k) = last'.src[k + 1]
                /\ writer' = (writer + last'.len) % size
                /\ reader' = reader
           ELSE /\ last'.ret = -1
                /\ UNCHANGED <<reader, writer, buff>>
        /\ (mrb_isfull /\ last'.len >= 1) =>
               (last'.ret = -1 /\ UNCHANGED <<reader, writer, buff>>) ]_vars

\* capacity - 1 bytes are in the buffer and a putAll of one byte was refused
C6_Witness ==
    /\ last.op = "putall"
    /\ last.len = 1
    /\ last.ret = -1
    /\ mrb_used = size - 1
    /\ mrb_isfull

\* C7: get copies the min(len, used) oldest unread bytes in order, returns
\* that count, advances reader by it modulo capacity and leaves writer alone;
\* used shrinks by the returned count.
C7_Get ==
    [][ last'.op = "get" =>
        LET n == MIN(last'.len, mrb_used) IN
        /\ last'.ret = n
        /\ last'.out = [k \in 1..n |-> At(buff, reader, k - 1)]
        /\ reader' = (reader + n) % size
        /\ writer' = writer
        /\ mrb_used' = mrb_used - n ]_vars

\* a get that was cut short and whose bytes straddle the wrap point
C7_Witness ==
    /\ last.op = "get"
    /\ 0 < last.ret /\ last.ret < last.len
    /\ last.accOff + last.ret > size
    /\ \E i, j \in 1..Len(last.out) : last.out[i] # last.out[j]

\* C8: softGet with offset <= used changes neither cursor nor used, and
\* returns the min(len, used - offset) logical bytes that start offset bytes
\* ahead of reader.
C8_SoftGet ==
    [][ last'.op = "softget" =>
        LET n == MIN(last'.len, mrb_used - last'.aux) IN
        /\ reader' = reader
        /\ writer' = writer
        /\ mrb_used' = mrb_used
        /\ last'.ret = n
        /\ last'.out = [k \in 1..n |-> At(buff, reader, last'.aux + k - 1)] ]_vars

\* a peek at an offset that returned fewer bytes than asked, across the wrap
C8_Witness ==
    /\ last.op = "softget"
    /\ last.aux > 0
    /\ 1 < last.ret /\ last.ret < last.len
    /\ last.accOff < size
    /\ last.accOff + last.ret > size

\* C9: getMin fails, copying nothing and moving no cursor, when used < minLen;
\* otherwise it copies min(maxLen, used) bytes from reader, returns that
\* count and advances reader by it modulo capacity, also when maxLen < minLen.
C9_GetMin ==
    [][ last'.op = "getmin" =>
        IF mrb_used < last'.aux
        THEN /\ last'.ret = -1
             /\ last'.out = <<>>
             /\ UNCHANGED <<reader, writer, buff>>
        ELSE LET n == MIN(last'.len, mrb_used) IN
             /\ last'.ret = n
             /\ last'.out = [k \in 1..n |-> At(buff, reader, k - 1)]
             /\ reader' = (reader + n) % size
             /\ writer' = writer ]_vars

\* a getMin with maxLen < minLen that succeeded and returned maxLen bytes
C9_Witness ==
    /\ last.op = "getmin"
    /\ last.len < last.aux
    /\ last.ret = last.len
    /\ last.ret >= 1

\* the characters of the rendering that a print call stored
Stored(call) == IF call.out = <<>> THEN 0 ELSE Len(call.out) - 1

\* C10: printf stores no byte beyond the available free bytes and advances
\* writer by the number of characters stored (counted without or with the
\* terminator; a failed rendering may leave writer where it was), so used
\* grows by at most the previous available and writer never overtakes reader.
C10_PrintBounded ==
    [][ last'.op = "print" =>
        /\ Len(last'.out) <= mrb_available
        /\ \/ writer' = (writer + Stored(last')) % size
           \/ writer' = (writer + Len(last'.out)) % size
           \/ last'.ret < 0 /\ writer' = writer
        /\ mrb_used' >= mrb_used
        /\ mrb_used' - mrb_used <= mrb_available ]_vars

\* C11: rollback fails, moving no cursor, exactly when used > len; otherwise
\* it succeeds and sets reader to (reader - len) mod capacity in the
\* mathematical sense, for every capacity and every len.
C11_RollbackModular ==
    [][ last'.op = "rollback" =>
        IF mrb_used > last'.len
        THEN /\ last'.ret = -1
             /\ UNCHANGED <<reader, writer>>
        ELSE /\ last'.ret = 0
             /\ reader' = (reader - last'.len) % size
             /\ writer' = writer ]_vars

\* the offset the search of C13 is to return: the smallest i >= start at
\* which the needle lies inside the window, -1 when there is none
C13_Expected(needle, start, limit) ==
    LET stop == IF limit <= 0 \/ limit > mrb_used THEN mrb_used ELSE start + limit
        hits == {i \in start..(stop - Len(needle)) :
                    \A k \in 1..Len(needle) : At(buff, reader, i + k - 1) = needle[k]}
    IN IF hits = {} THEN -1 ELSE CHOOSE i \in hits : \A j \in hits : i <= j

\* C13: for a non-empty needle and start < used, search returns the first
\* offset from reader, not before start, at which the needle lies inside the
\* window, or NotFound; the window is [start, used) when limit <= 0 or
\* limit > used and [start, start+limit) otherwise; no cursor moves.
C13_SearchWindow ==
    [][ (last'.op = "search" /\ last'.len > 0 /\ last'.aux < mrb_used) =>
        /\ last'.ret = C13_Expected(last'.src, last'.aux, last'.lim)
        /\ UNCHANGED <<reader, writer>> ]_vars

\* C14: readInto asks read for min(len, available) bytes at writer and
\* writeFrom hands write min(len, used) bytes at reader; a result r > 0 moves
\* only writer (readInto) or only reader (writeFrom), by r modulo capacity;
\* a result of 0 or less moves no cursor; the result is returned as it is.
C14_DescriptorIO ==
    [][ /\ last'.op = "readin" =>
            /\ last'.accOff = writer
            /\ last'.accLen = MIN(last'.len, mrb_available)
            /\ last'.ret <= last'.accLen
            /\ Len(last'.src) = Max0(last'.ret)
            /\ reader' = reader
            /\ writer' = IF last'.ret > 0 THEN (writer + last'.ret) % size
                                          ELSE writer
        /\ last'.op = "writeout" =>
            /\ last'.accOff = reader
            /\ last'.accLen = MIN(last'.len, mrb_used)
            /\ last'.ret <= last'.accLen
            /\ last'.out = [k \in 1..Max0(last'.ret) |-> At(buff, reader, k - 1)]
            /\ writer' = writer
            /\ reader' = IF last'.ret > 0 THEN (reader + last'.ret) % size
                                          ELSE reader ]_vars

\* a read that returned fewer bytes than asked for, stored across the wrap
C14_Witness ==
    /\ last.op = "readin"
    /\ 0 < last.ret /\ last.ret < last.accLen
    /\ last.accOff + last.ret > size

\* C19: a successful rollback(len) leaves used at the previous used plus len,
\* which is at most capacity - 1: reader never moves back past writer.
C19_RollbackKeepsBehindWriter ==
    [][ (last'.op = "rollback" /\ last'.ret = 0) =>
        /\ mrb_used' = mrb_used + last'.len
        /\ mrb_used' <= size - 1 ]_vars

\* the number of bytes a call took out of the buffer
Consumed(call) ==
    IF call.op = "get" THEN call.ret
    ELSE IF call.op = "skip" /\ call.ret = 0 THEN call.len
    ELSE 0

\* C12: right after a get or skip that consumed n >= 1 bytes, rollback(n)
\* succeeds and puts reader back where it was before the consumption, so that
\* the n bytes at reader are again the bytes the get returned.
C12_RollbackRestores ==
    [][ ( /\ Consumed(last) >= 1
          /\ last'.op = "rollback"
          /\ last'.len = Consumed(last) )
        => /\ last'.ret = 0
           /\ reader' = last.accOff
           /\ last.op = "get" =>
                  last.out = [k \in 1..last.ret |-> At(buff', reader', k - 1)] ]_vars

\* C18: FIFO integrity.  Over put, putall, readin, get, getmin, skip and
\* writeout, after every call the unread content of the buffer is exactly
\* the accepted bytes that were not handed out yet, in the order they were
\* accepted, and the bytes a call hands out are the oldest of them.
C18_FifoIntegrity ==
    [][ /\ fifo' = Load(reader, mrb_used)'
        /\ Len(last'.out) <= Len(fifo)
        /\ \A k \in 1..Len(last'.out) : k <= Len(fifo) => last'.out[k] = fifo[k] ]_vars

\* a getmin across the end of the file that leaves accepted bytes unread
C18_Witness ==
    /\ last.op = "getmin"
    /\ last.ret >= 2
    /\ last.accOff + last.ret > size
    /\ fifo # <<>>
    /\ fifo = Load(reader, mrb_used)

\* C15: when the handle could be allocated, create of a capacity that is zero
\* or not a multiple of the page size fails with InvalidSize before it made
\* any file or mapping call; create of a positive multiple of the page size
\* with no failing call succeeds with size() = capacity, reader = writer = 0
\* and an empty buffer.
C15_CreateValidates ==
    (last.op = "create" /\ "malloc" \notin sys.failed) =>
        IF last.len = 0 \/ last.len % PageSize # 0
        THEN /\ last.ret = -1
             /\ sys.err = "InvalidSize"
             /\ \A i \in 1..Len(sys.trace) : sys.trace[i] \in {"malloc", "free"}
        ELSE sys.failed = {} =>
                 /\ last.ret = 0
                 /\ mrb_size = last.len
                 /\ reader = 0 /\ writer = 0
                 /\ mrb_isempty

\* C16: when create returns after one of its file or mapping calls failed,
\* it returns a failure, neither half of the range is mapped and the handle
\* is freed.
C16_CreateUnwinds ==
    ( /\ last.op = "create"
      /\ sys.failed \cap {"tmpfile", "ftruncate", "mmap_reserve",
                          "mmap_first", "mmap_second"} # {} )
    => /\ last.ret = -1
       /\ sys.lo = "none" /\ sys.hi = "none"
       /\ sys.handle = "freed"

\* C17: destroy unmaps the second half, then the first half, then the whole
\* range; when all three succeed it frees the handle and returns 0, and at
\* the first failing unmap it returns -1 with no further unmap and the
\* handle not freed.
C17_DestroyOrder ==
    last.op = "destroy" =>
        LET order == <<"munmap_second", "munmap_first", "munmap_all">> IN
        IF last.lim = 0
        THEN /\ last.ret = 0
             /\ sys.trace = order \o <<"free">>
             /\ sys.handle = "freed"
        ELSE /\ last.ret = -1
             /\ sys.trace = SubSeq(order, 1, last.lim)
             /\ sys.handle = "live"
             /\ sys.err = "DestroyFailure"

\* a destroy whose second unmap failed: the second half is gone, the first
\* half is still mapped
C17_Witness ==
    /\ last.op = "destroy"
    /\ last.lim = 2
    /\ last.ret = -1
    /\ sys.hi = "none" /\ sys.lo = "file"
    /\ sys.handle = "live"

\* the number of times the descriptor of the temporary file was closed
Closes(trace) == Cardinality({i \in 1..Len(trace) : trace[i] \in {"close", "fclose"}})

\* C20: whenever create returns having opened the temporary file, it closed
\* the file's descriptor exactly once.
C20_DescriptorClosedOnce ==
    (last.op = "create" /\ sys.file # "none") => Closes(sys.trace) = 1

====
